---- MODULE Spec2Model ----
(***************************************************************************)
(* Model of app.py, the provider data-quality dashboard: the phone format  *)
(* check, the missing-NPI filter, the license cross-reference, the blocked *)
(* fuzzy duplicate clustering, the metrics of the overview page and the    *)
(* top-level script that loads the tables and runs the four analyses.      *)
(*                                                                         *)
(* Text cells are sequences of one-character strings, so that lower(),     *)
(* strip(), the phone regex and the date parser are computed character by  *)
(* character.  A missing cell (pandas NaN) is the one-element sequence NaN.*)
(* DataFrames live in a heap of objects and are passed by reference, as in *)
(* Python: an analysis that assigns a column changes the object it was     *)
(* handed.                                                                 *)
(***************************************************************************)
EXTENDS Integers, Sequences, FiniteSets, TLC

VARIABLES
    pc,                 \* position of the running script / call
    heap,               \* the DataFrame objects, by object id (1..Len(heap))
    roster,             \* reference to the roster (0 = None)
    ca_licenses,        \* reference to the CA license table (0 = None)
    ny_licenses,        \* reference to the NY license table (0 = None)
    similarity,         \* fuzz.token_set_ratio on pairs of distinct names
    score_cutoff,       \* find_duplicates' score_cutoff argument
    phone_issues,       \* rows returned by find_phone_number_formatting_issues
    missing_npi,        \* rows returned by find_missing_npi / line 165
    expired_licenses,   \* rows returned by validate_licenses
    duplicate_clusters, \* list of clusters returned by find_duplicates
    metrics,            \* the overview page's numbers
    outcome             \* how the script run ended

vars == <<pc, heap, roster, ca_licenses, ny_licenses, similarity, score_cutoff,
          phone_issues, missing_npi, expired_licenses, duplicate_clusters,
          metrics, outcome>>

(***************************************************************************)
(* Bounds of the model.                                                    *)
(***************************************************************************)
\* rows of the roster handed to find_duplicates
MaxRows == 4

\* rows of the license table in the classification runs
MaxMaskRows == 1

\* providers of the roster the script loads
MaxProviders == 3

\* rows of the roster handed to find_phone_number_formatting_issues
MaxPhoneRows == 1

\* rows of the roster and of each license table in the cross-reference runs
MaxLicRoster == 2
MaxLicRows == 2

(***************************************************************************)
(* Characters and strings.                                                 *)
(***************************************************************************)
\* The characters the model uses, in code-point order (Python compares and
\* sorts strings by code point).
CodeOrder ==
    << "\t", "\n", " ", "(", ")", "-", ".",
       "0", "1", "2", "3", "4", "5", "6", "7", "8", "9",
       "A", "B", "C", "D", "E", "I", "L", "N", "O", "P", "R", "S", "T", "U",
       "V", "W", "X", "Y",
       "a", "b", "c", "d", "e", "i", "l", "n", "o", "p", "r", "s", "t", "u",
       "v", "w", "x", "y" >>

Ord(c) == CHOOSE i \in 1..Len(CodeOrder) : CodeOrder[i] = c

Digits == {"0", "1", "2", "3", "4", "5", "6", "7", "8", "9"}

\* str.isspace for the characters of the model
IsSpace(c) == c \in {" ", "\t", "\n"}

UpperToLower ==
    [A |-> "a", B |-> "b", C |-> "c", D |-> "d", E |-> "e", I |-> "i",
     L |-> "l", N |-> "n", O |-> "o", P |-> "p", R |-> "r", S |-> "s",
     T |-> "t", U |-> "u", V |-> "v", W |-> "w", X |-> "x", Y |-> "y"]

\* str.lower on one character
LowerChar(c) == IF c \in DOMAIN UpperToLower THEN UpperToLower[c] ELSE c

\* pandas' missing value in a text column
NaN == << "NaN" >>

IsNaN(cell) == cell = NaN

\* Python's str.lower()
Lower(s) == [i \in 1..Len(s) |-> LowerChar(s[i])]

RECURSIVE LStrip(_)
LStrip(s) == IF s # << >> /\ IsSpace(Head(s)) THEN LStrip(Tail(s)) ELSE s

RECURSIVE RStrip(_)
RStrip(s) ==
    IF s # << >> /\ IsSpace(s[Len(s)]) THEN RStrip(SubSeq(s, 1, Len(s) - 1))
    ELSE s

\* Python's str.strip()
Strip(s) == RStrip(LStrip(s))

\* Series.str.lower() / Series.str.strip(): missing cells stay missing
StrLower(cell) == IF IsNaN(cell) THEN NaN ELSE Lower(cell)
StrStrip(cell) == IF IsNaN(cell) THEN NaN ELSE Strip(cell)

\* Series.astype(str) on a text column: str(nan) is the text "nan"
AsTypeStr(cell) == IF IsNaN(cell) THEN << "n", "a", "n" >> ELSE cell

\* s < t for Python strings (lexicographic by code point)
RECURSIVE StrLess(_, _)
StrLess(s, t) ==
    IF t = << >> THEN FALSE
    ELSE IF s = << >> THEN TRUE
    ELSE IF Head(s) = Head(t) THEN StrLess(Tail(s), Tail(t))
    ELSE Ord(Head(s)) < Ord(Head(t))

(***************************************************************************)
(* DataFrames: a set of column names and a sequence of rows; row p carries *)
(* the index label p - 1 (read_csv's RangeIndex).                          *)
(***************************************************************************)
RosterColumns ==
    {"provider_id", "full_name", "last_name", "primary_specialty",
     "practice_phone", "npi", "license_number", "license_state"}

LicenseColumns == {"license_number", "status", "expiration_date"}

\* df[col] = values: adds the column or overwrites it, in place
AssignColumn(df, col, values) ==
    [columns |-> df.columns \cup {col},
     rows    |-> [p \in 1..Len(df.rows) |-> (col :> values[p]) @@ df.rows[p]]]

\* the series df[col], by position
Column(df, col) == [p \in 1..Len(df.rows) |-> df.rows[p][col]]

\* a reference to the same object, where copy() makes a new one
CopyAlias(h, ref) == [heap |-> h, ref |-> ref]

\* DataFrame.copy(): a new object with the same contents
CopyDF(h, ref) == [heap |-> Append(h, h[ref]), ref |-> Len(h) + 1]

\* df.loc[label, col]
Loc(df, label, col) == df.rows[label + 1][col]

(***************************************************************************)
(* 3. Provider deduplication: find_duplicates.                             *)
(***************************************************************************)
\* Series.str.lower().str.strip()
Normalize(cell) == StrStrip(StrLower(cell))

\* the same, on a column
NormalizeSeries(series) == [p \in DOMAIN series |-> Normalize(series[p])]

\* fuzz.token_set_ratio of two normalized full names.  The library is not
\* part of the program: its score on two different names is an input of the
\* model (symmetric, as the library's is); equal names score 100.
token_set_ratio(name1, name2) ==
    IF name1 = name2 THEN 100 ELSE similarity[{name1, name2}]

\* the groupby key of a row: ['last_name_norm', 'primary_specialty']
GroupKeyNoSpecialty(row) == << row["last_name_norm"], << >> >>
GroupKey(row) == << row["last_name_norm"], row["primary_specialty"] >>

\* groupby drops the rows whose key has a missing part (dropna=True)
HasKey(row) ==
    ~IsNaN(row["last_name_norm"]) /\ ~IsNaN(row["primary_specialty"])

\* the keys of the groups
GroupKeys(df) ==
    {GroupKey(df.rows[p]) : p \in {q \in 1..Len(df.rows) : HasKey(df.rows[q])}}

\* tuple order on keys: groupby iterates its groups in sorted key order
KeyLess(k1, k2) ==
    \/ StrLess(k1[1], k2[1])
    \/ k1[1] = k2[1] /\ StrLess(k1[2], k2[2])

RECURSIVE SortKeys(_)
SortKeys(keys) ==
    IF keys = {} THEN << >>
    ELSE LET least == CHOOSE k \in keys : \A o \in keys \ {k} : KeyLess(k, o)
         IN  << least >> \o SortKeys(keys \ {least})

\* group.index.tolist(): the labels of the group's rows, in roster order
RECURSIVE GroupIndex(_, _, _)
GroupIndex(df, key, p) ==
    IF p > Len(df.rows) THEN << >>
    ELSE IF HasKey(df.rows[p]) /\ GroupKey(df.rows[p]) = key
         THEN << p - 1 >> \o GroupIndex(df, key, p + 1)
         ELSE GroupIndex(df, key, p + 1)

\* line 139: score >= score_cutoff
JoinsStrict(score, cutoff) == score > cutoff
Joins(score, cutoff) == score >= cutoff

\* line 130: the candidate was claimed already
NeverClaimed(label, matched_indices) == FALSE
AlreadyClaimed(label, matched_indices) == label \in matched_indices

\* lines 129-141: the scan of the later records of the group for anchor i
RECURSIVE InnerLoop(_, _, _, _, _, _, _)
InnerLoop(df, indices, i, j, matched_indices, current_cluster, cutoff) ==
    IF j > Len(indices) THEN
        [current_cluster |-> current_cluster, matched_indices |-> matched_indices]
    ELSE IF AlreadyClaimed(indices[j], matched_indices) THEN
        InnerLoop(df, indices, i, j + 1, matched_indices, current_cluster, cutoff)
    ELSE
        LET name1 == Loc(df, indices[i], "full_name_norm")
            name2 == Loc(df, indices[j], "full_name_norm")
            score == token_set_ratio(name1, name2)
        IN  IF Joins(score, cutoff)
            THEN InnerLoop(df, indices, i, j + 1,
                           matched_indices \cup {indices[j]},
                           Append(current_cluster, indices[j]), cutoff)
            ELSE InnerLoop(df, indices, i, j + 1, matched_indices,
                           current_cluster, cutoff)

\* lines 124-145: the anchors of one group, in order
RECURSIVE OuterLoop(_, _, _, _, _, _)
OuterLoop(df, indices, i, matched_indices, clusters, cutoff) ==
    IF i > Len(indices) THEN clusters
    ELSE IF indices[i] \in matched_indices THEN
        OuterLoop(df, indices, i + 1, matched_indices, clusters, cutoff)
    ELSE
        LET r == InnerLoop(df, indices, i, i + 1, matched_indices,
                           << indices[i] >>, cutoff)
        IN  IF Len(r.current_cluster) > 1
            THEN OuterLoop(df, indices, i + 1,
                           r.matched_indices \cup
                               {r.current_cluster[k] : k \in 1..Len(r.current_cluster)},
                           Append(clusters, r.current_cluster), cutoff)
            ELSE OuterLoop(df, indices, i + 1, r.matched_indices, clusters, cutoff)

\* lines 119-145: the groups, in key order; a group of one row is skipped
RECURSIVE GroupLoop(_, _, _, _, _)
GroupLoop(df, keys, g, clusters, cutoff) ==
    IF g > Len(keys) THEN clusters
    ELSE LET indices == GroupIndex(df, keys[g], 1)
         IN  IF Len(indices) > 1
             THEN GroupLoop(df, keys, g + 1,
                            OuterLoop(df, indices, 1, {}, clusters, cutoff), cutoff)
             ELSE GroupLoop(df, keys, g + 1, clusters, cutoff)

\* find_duplicates(df, score_cutoff): assigns the two normalized columns to
\* the frame it was handed and returns the list of clusters
find_duplicates(h, df, cutoff) ==
    LET d1 == AssignColumn(h[df], "last_name_norm",
                           NormalizeSeries(Column(h[df], "last_name")))
        d2 == AssignColumn(d1, "full_name_norm",
                           NormalizeSeries(Column(d1, "full_name")))
    IN  [heap |-> [h EXCEPT ![df] = d2],
         ret  |-> GroupLoop(d2, SortKeys(GroupKeys(d2)), 1, << >>, cutoff)]

(***************************************************************************)
(* 2. License validation: validate_licenses.                               *)
(***************************************************************************)
\* HACKATHON_DATE = datetime(2025, 9, 7).date(), as (year, month, day)
HACKATHON_DATE == << 2025, 9, 7 >>

\* pandas' missing date
NaT == << >>

DigitValue(c) == Ord(c) - Ord("0")

\* int() of a run of digits
RECURSIVE ParseInt(_)
ParseInt(s) ==
    IF s = << >> THEN 0
    ELSE 10 * ParseInt(SubSeq(s, 1, Len(s) - 1)) + DigitValue(s[Len(s)])

IsLeapYear(y) == (y % 4 = 0 /\ y % 100 # 0) \/ y % 400 = 0

DaysInMonth(y, m) ==
    IF m = 2 THEN (IF IsLeapYear(y) THEN 29 ELSE 28)
    ELSE IF m \in {4, 6, 9, 11} THEN 30 ELSE 31

\* pd.to_datetime(cell, errors='coerce').date() on a YYYY-MM-DD text: a
\* missing cell, a text of another shape and an impossible date give NaT
to_datetime(cell) ==
    IF IsNaN(cell) \/ Len(cell) # 10 THEN NaT
    ELSE IF ~(/\ cell[5] = "-" /\ cell[8] = "-"
              /\ \A i \in {1, 2, 3, 4, 6, 7, 9, 10} : cell[i] \in Digits) THEN NaT
    ELSE LET y == ParseInt(SubSeq(cell, 1, 4))
             m == ParseInt(SubSeq(cell, 6, 7))
             d == ParseInt(SubSeq(cell, 9, 10))
         IN  IF y >= 1 /\ m \in 1..12 /\ d \in 1..DaysInMonth(y, m)
             THEN << y, m, d >> ELSE NaT

\* date1 < date2 in a Series comparison: a comparison with NaT is False
DateLess(d1, d2) ==
    /\ d1 # NaT
    /\ d2 # NaT
    /\ \/ d1[1] < d2[1]
       \/ d1[1] = d2[1] /\ d1[2] < d2[2]
       \/ d1[1] = d2[1] /\ d1[2] = d2[2] /\ d1[3] < d2[3]

\* Series.astype(str).str.strip(), lines 64-66
CleanNumber(cell) == Strip(AsTypeStr(cell))

\* the same, on a column
CleanSeries(series) == [p \in DOMAIN series |-> CleanNumber(series[p])]

\* the right table's rows joined to one left row: one joined row per match on
\* license_number_clean, in the right table's order, or one row with missing
\* status and expiration_date (how='left')
JoinOne(left, right_rows) ==
    LET Matches(t) == t["license_number_clean"] = left["license_number_clean"]
        hits == SelectSeq(right_rows, Matches)
    IN  IF hits = << >>
        THEN << [status |-> NaN, expiration_date |-> NaN] @@ left >>
        ELSE [k \in 1..Len(hits) |->
                [status |-> hits[k]["status"],
                 expiration_date |-> hits[k]["expiration_date"]] @@ left]

\* pd.merge(left, right[[license_number_clean, status, expiration_date]],
\*          on='license_number_clean', how='left')
RECURSIVE LeftMerge(_, _)
LeftMerge(left_rows, right_rows) ==
    IF left_rows = << >> THEN << >>
    ELSE JoinOne(Head(left_rows), right_rows) \o LeftMerge(Tail(left_rows), right_rows)

CA == << "C", "A" >>
NY == << "N", "Y" >>
\* the texts "expired", "EXPIRED" and "Expired"
ExpiredLower == << "e", "x", "p", "i", "r", "e", "d" >>
ExpiredUpper == << "E", "X", "P", "I", "R", "E", "D" >>
ExpiredCapital == << "E", "x", "p", "i", "r", "e", "d" >>

\* lines 90-91: the mask on a joined row, without its lower()
ExpiredMaskCaseSensitive(joined) ==
    \/ DateLess(to_datetime(joined["expiration_date"]), HACKATHON_DATE)
    \/ joined["status"] = ExpiredLower

\* lines 90-91: (expiration_date < HACKATHON_DATE) | (status.str.lower() == 'expired')
ExpiredMask(joined) ==
    \/ DateLess(to_datetime(joined["expiration_date"]), HACKATHON_DATE)
    \/ StrLower(joined["status"]) = ExpiredLower

\* lines 96-98: the columns shown, renamed, with the parsed date
ExpiredDisplay(joined) ==
    [provider_id |-> joined["provider_id"],
     full_name |-> joined["full_name"],
     license_number |-> joined["license_number"],
     license_state |-> joined["license_state"],
     StateDBStatus |-> joined["status"],
     StateDBExpiration |-> to_datetime(joined["expiration_date"])]

\* DataFrame.drop_duplicates(): the first of equal rows is kept
RECURSIVE DropDuplicates(_)
DropDuplicates(rows) ==
    IF rows = << >> THEN << >>
    ELSE LET front == DropDuplicates(SubSeq(rows, 1, Len(rows) - 1))
             last  == rows[Len(rows)]
         IN  IF \E k \in 1..Len(front) : front[k] = last
             THEN front ELSE Append(front, last)

\* lines 64-66: license_number_clean is assigned to the three frames handed in
WithCleanNumber(df) ==
    AssignColumn(df, "license_number_clean", CleanSeries(Column(df, "license_number")))

\* validate_licenses(roster_df, ca_df, ny_df)
validate_licenses(h, roster_df, ca_df, ny_df) ==
    LET r  == WithCleanNumber(h[roster_df])
        ca == WithCleanNumber(h[ca_df])
        ny == WithCleanNumber(h[ny_df])
        InCA(row) == row["license_state"] = CA
        InNY(row) == row["license_state"] = NY
        ca_merged == LeftMerge(SelectSeq(r.rows, InCA), ca.rows)
        ny_merged == LeftMerge(SelectSeq(r.rows, InNY), ny.rows)
        all_licensed == ca_merged \o ny_merged
        expired_df == SelectSeq(all_licensed, ExpiredMask)
        expired_display == [k \in 1..Len(expired_df) |-> ExpiredDisplay(expired_df[k])]
    IN  [heap |-> [h EXCEPT ![roster_df] = r, ![ca_df] = ca, ![ny_df] = ny],
         ret  |-> DropDuplicates(expired_display)]

(***************************************************************************)
(* 1. Field checks: find_missing_npi and                                   *)
(* find_phone_number_formatting_issues.                                    *)
(***************************************************************************)
\* df[df['npi'].isnull()][['provider_id', 'full_name', 'primary_specialty']]
find_missing_npi(h, df) ==
    LET Missing(row) == IsNaN(row["npi"])
        hits == SelectSeq(h[df].rows, Missing)
    IN  [heap |-> h,
         ret  |-> [k \in 1..Len(hits) |->
                     [provider_id |-> hits[k]["provider_id"],
                      full_name |-> hits[k]["full_name"],
                      primary_specialty |-> hits[k]["primary_specialty"]]]]

\* the character classes of the phone pattern: \d and \s
RegexDigit == Digits
RegexSpace == {" ", "\t", "\n"}

\* r'^\(?\d{3}\)?[-.\s]?\d{3}[-.\s]?\d{4}$' as the list of its items, each a
\* character class that is matched once, or at most once when optional
phone_regex ==
    LET One(class) == [class |-> class, optional |-> FALSE]
        Opt(class) == [class |-> class, optional |-> TRUE]
        Sep == {"-", "."} \cup RegexSpace
    IN  << Opt({"("}), One(RegexDigit), One(RegexDigit), One(RegexDigit),
           Opt({")"}), Opt(Sep),
           One(RegexDigit), One(RegexDigit), One(RegexDigit), Opt(Sep),
           One(RegexDigit), One(RegexDigit), One(RegexDigit), One(RegexDigit) >>

\* '$': the end of the text, or just before a newline that ends it
AtDollar(text, i) ==
    \/ i = Len(text) + 1
    \/ i = Len(text) /\ text[i] = "\n"

\* re.match from item k of the pattern and position i of the text
RECURSIVE MatchFrom(_, _, _, _)
MatchFrom(pattern, k, text, i) ==
    IF k > Len(pattern) THEN AtDollar(text, i)
    ELSE \/ /\ i <= Len(text)
            /\ text[i] \in pattern[k].class
            /\ MatchFrom(pattern, k + 1, text, i + 1)
         \/ /\ pattern[k].optional
            /\ MatchFrom(pattern, k + 1, text, i)

\* Series.str.match(phone_regex, na=False) on one cell
StrMatch(pattern, text) == MatchFrom(pattern, 1, text, 1)

\* Series.astype(str), line 174
AsTypeStrSeries(series) == [p \in DOMAIN series |-> AsTypeStr(series[p])]

\* find_phone_number_formatting_issues(roster_df): works on df_copy, a copy
\* of the frame it was handed
find_phone_number_formatting_issues(h, roster_df) ==
    LET c == CopyDF(h, roster_df)
        df_copy == AssignColumn(c.heap[c.ref], "practice_phone_str",
                                AsTypeStrSeries(Column(c.heap[c.ref], "practice_phone")))
        Issue(row) ==
            /\ ~StrMatch(phone_regex, row["practice_phone_str"])
            /\ ~IsNaN(row["practice_phone"])
        formatting_issues == SelectSeq(df_copy.rows, Issue)
    IN  [heap |-> [c.heap EXCEPT ![c.ref] = df_copy],
         ret  |-> [k \in 1..Len(formatting_issues) |->
                     [provider_id |-> formatting_issues[k]["provider_id"],
                      full_name |-> formatting_issues[k]["full_name"],
                      practice_phone |-> formatting_issues[k]["practice_phone"]]]]

(***************************************************************************)
(* The metrics of the overview page, lines 202-212.                        *)
(***************************************************************************)
RECURSIVE SumOfLengths(_)
SumOfLengths(clusters) ==
    IF clusters = << >> THEN 0
    ELSE Len(Head(clusters)) + SumOfLengths(Tail(clusters))

\* line 206 with len(duplicate_clusters) in place of the sum
NumDuplicateClusters(clusters) == Len(clusters)

\* line 206: sum(len(cluster) for cluster in duplicate_clusters)
NumDuplicates(clusters) == SumOfLengths(clusters)

\* line 212; the float is kept as the exact fraction num / den
QualityScore(fields_checked, total_issues) ==
    IF fields_checked > 0
    THEN [num |-> (fields_checked - total_issues) * 100, den |-> fields_checked]
    ELSE [num |-> 0, den |-> 1]

OverviewMetrics(total_providers, num_phone_issues, num_missing_npi, num_expired_licenses, num_duplicates) ==
    LET total_issues == num_phone_issues + num_missing_npi
                            + num_expired_licenses + num_duplicates
        fields_checked == total_providers * 4
    IN  [computed |-> TRUE,
         total_providers |-> total_providers,
         num_phone_issues |-> num_phone_issues,
         num_missing_npi |-> num_missing_npi,
         num_expired_licenses |-> num_expired_licenses,
         num_duplicates |-> num_duplicates,
         total_issues |-> total_issues,
         fields_checked |-> fields_checked,
         quality_score |-> QualityScore(fields_checked, total_issues)]

(***************************************************************************)
(* Inputs of the model.                                                    *)
(***************************************************************************)
\* one roster row, as read_csv delivers it
ProviderRow(id, full, last, specialty, phone, npi, number, state) ==
    [provider_id |-> id, full_name |-> full, last_name |-> last,
     primary_specialty |-> specialty, practice_phone |-> phone, npi |-> npi,
     license_number |-> number, license_state |-> state]

\* the specialties "Onc" and "Card"
Onc == << "O", "n", "c" >>
Card == << "C", "a", "r", "d" >>

\* (full_name, last_name) of the providers of the model: "Al Li"/"Li",
\* " al B li"/"li " (the same last name after lower and strip), "A Li "/"Li",
\* and "Al Li"/"Wu" (the first one's full name under another last name)
AlLi == << << "A", "l", " ", "L", "i" >>, << "L", "i" >> >>
AlBLi == << << " ", "a", "l", " ", "B", " ", "l", "i" >>, << "l", "i", " " >> >>
ALi == << << "A", " ", "L", "i", " " >>, << "L", "i" >> >>
AlWu == << << "A", "l", " ", "L", "i" >>, << "W", "u" >> >>

Persons == {AlLi, AlBLi, ALi, AlWu}

NormFullNames == {Normalize(q[1]) : q \in Persons}

NamePairs == {pair \in SUBSET NormFullNames : Cardinality(pair) = 2}

\* find_duplicates' default score_cutoff
DefaultCutoff == 90

\* the default score_cutoff and a stricter one
ScoreCutoffs == {DefaultCutoff, 95}

\* scores of the library on two different names: just below the cutoff, or
\* equal to it
ScoresAround(cutoff) == {cutoff - 1, cutoff}

DefaultPhone == << "5", "5", "5", "-", "0", "1", "0", "-", "1", "2", "3", "4" >>
DefaultNpi == << "1", "0", "0", "3" >>
DefaultNumber == << "A", "1" >>
DefaultState == << "C", "A" >>

\* rosters that differ in the three columns find_duplicates reads
DupFields == ({AlLi, AlBLi} \X {Onc, Card}) \cup ({ALi, AlWu} \X {Onc})

DupRoster(f) ==
    [columns |-> RosterColumns,
     rows    |-> [p \in 1..Len(f) |->
                    ProviderRow(p, f[p][1][1], f[p][1][2], f[p][2], DefaultPhone,
                                DefaultNpi, DefaultNumber, DefaultState)]]

DupRosters == UNION {[1..n -> DupFields] : n \in 0..MaxRows}

NoTable == << >>
NoMetrics == [computed |-> FALSE]

(***************************************************************************)
(* find_duplicates applied to a roster.                                    *)
(***************************************************************************)
InitDup ==
    /\ pc = "find_duplicates"
    /\ \E f \in DupRosters : heap = << DupRoster(f) >>
    /\ roster = 1
    /\ ca_licenses = 0
    /\ ny_licenses = 0
    /\ score_cutoff \in ScoreCutoffs
    /\ similarity \in [NamePairs -> ScoresAround(score_cutoff)]
    /\ phone_issues = NoTable
    /\ missing_npi = NoTable
    /\ expired_licenses = NoTable
    /\ duplicate_clusters = << >>
    /\ metrics = NoMetrics
    /\ outcome = "running"

\* duplicate_clusters = find_duplicates(df, score_cutoff)
FindDuplicatesCall ==
    /\ pc = "find_duplicates"
    /\ \E r \in {find_duplicates(heap, roster, score_cutoff)} :
           /\ heap' = r.heap
           /\ duplicate_clusters' = r.ret
    /\ pc' = "returned"
    /\ UNCHANGED <<roster, ca_licenses, ny_licenses, similarity, score_cutoff,
                   phone_issues, missing_npi, expired_licenses, metrics, outcome>>

NextDup == FindDuplicatesCall

SpecDup == InitDup /\ [][NextDup]_vars

(***************************************************************************)
(* validate_licenses applied to a roster and two license tables.           *)
(***************************************************************************)
\* one row of a state license table, as read_csv delivers it
LicenseRow(number, status, expiration) ==
    [license_number |-> number, status |-> status, expiration_date |-> expiration]

LicenseTable(f) == [columns |-> LicenseColumns, rows |-> f]

\* license numbers "A1", " A1 " and "A1 " (equal after strip) and "B2"
NumberA1 == << "A", "1" >>
NumberA1Padded == << " ", "A", "1", " " >>
NumberA1Trailing == << "A", "1", " " >>
NumberB2 == << "B", "2" >>
TX == << "T", "X" >>

Active == << "A", "c", "t", "i", "v", "e" >>

\* registry statuses: "Active", "expired" in three letter cases, "expired "
\* with a trailing blank, and a missing status
MaskStatuses ==
    { Active, ExpiredLower, ExpiredCapital, ExpiredUpper,
      << "e", "x", "p", "i", "r", "e", "d", " " >>, NaN }

\* the day before the reference date, the reference date, the day after, a
\* day of an earlier year but a later month, a day of a later year but an
\* earlier month, an impossible date, a text that is no date, a missing date
DayBefore == << "2", "0", "2", "5", "-", "0", "9", "-", "0", "6" >>
ReferenceDay == << "2", "0", "2", "5", "-", "0", "9", "-", "0", "7" >>
DayAfter == << "2", "0", "2", "5", "-", "0", "9", "-", "0", "8" >>
NoDate == << "u", "n", "k", "n", "o", "w", "n" >>

MaskDates ==
    { DayBefore, ReferenceDay, DayAfter,
      << "2", "0", "2", "4", "-", "1", "2", "-", "3", "1" >>,
      << "2", "0", "2", "6", "-", "0", "1", "-", "0", "1" >>,
      << "2", "0", "2", "5", "-", "1", "3", "-", "0", "1" >>,
      NoDate, NaN }

\* rows of the table in the classification runs: every status with every date
MaskRows ==
    {LicenseRow(n, st, d) : n \in {NumberA1, NumberA1Padded}, st \in MaskStatuses,
                            d \in MaskDates}

\* rows of the CA table in the cross-reference runs
CARows ==
    { LicenseRow(NumberA1Padded, Active, DayBefore),
      LicenseRow(NumberA1, ExpiredUpper, NoDate),
      LicenseRow(NumberA1, Active, ReferenceDay),
      LicenseRow(NaN, ExpiredLower, NaN),
      LicenseRow(NumberB2, ExpiredCapital, DayAfter) }

\* rows of the NY table in the cross-reference runs
NYRows ==
    { LicenseRow(NumberA1, ExpiredLower, DayAfter),
      LicenseRow(NumberA1Padded, Active, DayAfter) }

\* (license_number, license_state) of the roster records in those runs
LicFields ==
    { << NumberA1, CA >>, << NumberA1Trailing, NY >>, << NumberA1, TX >>,
      << NaN, CA >>, << NumberB2, CA >>, << NumberB2, NY >> }

LicRoster(f) ==
    [columns |-> RosterColumns,
     rows    |-> [p \in 1..Len(f) |->
                    ProviderRow(p, AlLi[1], AlLi[2], Onc, DefaultPhone,
                                DefaultNpi, f[p][1], f[p][2])]]

SeqsUpTo(S, n) == UNION {[1..k -> S] : k \in 0..n}

InitLicenseCall(rosters, ca_tables, ny_tables) ==
    /\ pc = "validate_licenses"
    /\ \E r \in rosters, ca \in ca_tables, ny \in ny_tables :
          heap = << LicRoster(r), LicenseTable(ca), LicenseTable(ny) >>
    /\ roster = 1
    /\ ca_licenses = 2
    /\ ny_licenses = 3
    /\ similarity = << >>
    /\ score_cutoff = DefaultCutoff
    /\ phone_issues = NoTable
    /\ missing_npi = NoTable
    /\ expired_licenses = NoTable
    /\ duplicate_clusters = << >>
    /\ metrics = NoMetrics
    /\ outcome = "running"

\* expired_licenses = validate_licenses(roster_df, ca_df, ny_df)
ValidateLicensesCall ==
    /\ pc = "validate_licenses"
    /\ \E r \in {validate_licenses(heap, roster, ca_licenses, ny_licenses)} :
          /\ heap' = r.heap
          /\ expired_licenses' = r.ret
    /\ pc' = "returned"
    /\ UNCHANGED <<roster, ca_licenses, ny_licenses, similarity, score_cutoff,
                   phone_issues, missing_npi, duplicate_clusters, metrics, outcome>>

NextLic == ValidateLicensesCall

\* one CA-licensed record against a CA table of every status and date
InitMask ==
    InitLicenseCall({<< << NumberA1, CA >> >>}, SeqsUpTo(MaskRows, MaxMaskRows), {<< >>})

SpecMask == InitMask /\ [][NextLic]_vars

\* rosters of both jurisdictions and an unsupported one against both tables
InitLic ==
    InitLicenseCall(SeqsUpTo(LicFields, MaxLicRoster), SeqsUpTo(CARows, MaxLicRows),
                    SeqsUpTo(NYRows, MaxLicRows))

SpecLic == InitLic /\ [][NextLic]_vars

(***************************************************************************)
(* Properties of validate_licenses.                                        *)
(***************************************************************************)
\* days are compared by their number yyyymmdd
DayNumber(date) == date[1] * 10000 + date[2] * 100 + date[3]

\* a registry row is invalid: its expiration date parses to a day strictly
\* before the reference date, or its status is "expired" in some letter case
InvalidRow(t) ==
    \/ /\ to_datetime(t["expiration_date"]) # NaT
       /\ DayNumber(to_datetime(t["expiration_date"])) < DayNumber(HACKATHON_DATE)
    \/ /\ ~IsNaN(t["status"])
       /\ Lower(t["status"]) = ExpiredLower

\* the license numbers of a record and of a registry row are both present
\* and equal once surrounding whitespace is trimmed
SameNumber(rec, t) ==
    /\ ~IsNaN(rec["license_number"])
    /\ ~IsNaN(t["license_number"])
    /\ Strip(rec["license_number"]) = Strip(t["license_number"])

\* the rows of the table of the record's own jurisdiction
OwnTable(rec) ==
    IF rec["license_state"] = CA THEN heap[ca_licenses].rows
    ELSE IF rec["license_state"] = NY THEN heap[ny_licenses].rows
    ELSE << >>

\* the output holds the record joined to registry row t
ShownWith(rec, t) ==
    \E k \in 1..Len(expired_licenses) :
        /\ expired_licenses[k]["provider_id"] = rec["provider_id"]
        /\ expired_licenses[k]["StateDBStatus"] = t["status"]
        /\ expired_licenses[k]["StateDBExpiration"] = to_datetime(t["expiration_date"])

\* C3: a record joined to a registry row is reported invalid if and only if
\* the row's parsed expiration date is strictly before the reference date or
\* its status is "expired" in some letter case; a missing or unparseable
\* date leaves the status to decide, and the reference date itself is valid.
C3_InvalidIffEarlierOrExpired ==
    pc = "returned" =>
        \A p \in 1..Len(heap[roster].rows) :
            LET rec == heap[roster].rows[p]
            IN  \A k \in 1..Len(OwnTable(rec)) :
                    SameNumber(rec, OwnTable(rec)[k]) =>
                        (ShownWith(rec, OwnTable(rec)[k]) <=> InvalidRow(OwnTable(rec)[k]))

\* a row with status "EXPIRED" and a text that is no date is reported
C3_Witness ==
    /\ pc = "returned"
    /\ \E k \in 1..Len(heap[ca_licenses].rows) :
         LET t == heap[ca_licenses].rows[k]
         IN  /\ t["status"] = ExpiredUpper
             /\ t["expiration_date"] = NoDate
             /\ ShownWith(heap[roster].rows[1], t)

\* the output holds a row of the record
Shown(rec) ==
    \E k \in 1..Len(expired_licenses) :
        expired_licenses[k]["provider_id"] = rec["provider_id"]

\* C4: a roster record is in the output if and only if its license_state is
\* CA or NY and that state's table has an invalid row with the record's
\* license number (after trimming both).
C4_ShownIffOwnTableInvalid ==
    pc = "returned" =>
        \A p \in 1..Len(heap[roster].rows) :
            LET rec == heap[roster].rows[p]
            IN  Shown(rec) <=>
                    \E k \in 1..Len(OwnTable(rec)) :
                        /\ SameNumber(rec, OwnTable(rec)[k])
                        /\ InvalidRow(OwnTable(rec)[k])

(***************************************************************************)
(* Properties of find_duplicates.                                          *)
(***************************************************************************)
\* the rows of the roster as loaded, by index label
RosterRow(label) == heap[roster].rows[label + 1]

Labels == 0..(Len(heap[roster].rows) - 1)

Members(cluster) == {cluster[k] : k \in 1..Len(cluster)}

\* the labels some cluster holds, and those it holds as a non-first member
Clustered == UNION {Members(duplicate_clusters[a]) : a \in 1..Len(duplicate_clusters)}

Claimed ==
    UNION {{duplicate_clusters[a][k] : k \in 2..Len(duplicate_clusters[a])} :
           a \in 1..Len(duplicate_clusters)}

\* the normalized full name and the block of a roster row, from its raw cells
NameOf(label) == Strip(Lower(RosterRow(label)["full_name"]))

SameBlock(x, y) ==
    /\ Strip(Lower(RosterRow(x)["last_name"])) = Strip(Lower(RosterRow(y)["last_name"]))
    /\ RosterRow(x)["primary_specialty"] = RosterRow(y)["primary_specialty"]

ScoreOf(x, y) == token_set_ratio(NameOf(x), NameOf(y))

\* C1: the clusters find_duplicates returns are pairwise disjoint, no row
\* index occurs twice in a cluster, and every cluster has at least 2 members.
C1_ClustersDisjoint ==
    pc = "returned" =>
        /\ \A a \in 1..Len(duplicate_clusters) : Len(duplicate_clusters[a]) >= 2
        /\ \A a, b \in 1..Len(duplicate_clusters) :
             \A i \in 1..Len(duplicate_clusters[a]), j \in 1..Len(duplicate_clusters[b]) :
                (a # b \/ i # j) => duplicate_clusters[a][i] # duplicate_clusters[b][j]

\* two clusters of two records each are returned
C1_Witness ==
    /\ pc = "returned"
    /\ Len(duplicate_clusters) = 2
    /\ Len(duplicate_clusters[1]) = 2
    /\ Len(duplicate_clusters[2]) = 2

\* C2: two records of one cluster have the same normalized last name and the
\* same primary_specialty, whatever their full names are.
C2_ClusterWithinBlock ==
    pc = "returned" =>
        \A a \in 1..Len(duplicate_clusters) :
            \A x, y \in Members(duplicate_clusters[a]) : SameBlock(x, y)

\* a cluster of two records whose raw last names differ; a record with the
\* full name of a member but another specialty, and one with that full name
\* but another last name, are both left out of every cluster
C2_Witness ==
    /\ pc = "returned"
    /\ \E a \in 1..Len(duplicate_clusters) :
         \E x, y \in Members(duplicate_clusters[a]) :
            /\ RosterRow(x)["last_name"] # RosterRow(y)["last_name"]
            /\ \E z, w \in Labels \ Clustered :
                 /\ RosterRow(z)["full_name"] = RosterRow(x)["full_name"]
                 /\ RosterRow(z)["last_name"] = RosterRow(x)["last_name"]
                 /\ RosterRow(z)["primary_specialty"] # RosterRow(x)["primary_specialty"]
                 /\ RosterRow(w)["full_name"] = RosterRow(x)["full_name"]
                 /\ RosterRow(w)["primary_specialty"] = RosterRow(x)["primary_specialty"]
                 /\ RosterRow(w)["last_name"] # RosterRow(x)["last_name"]

\* C9: each cluster lists its members in roster order, led by an anchor no
\* earlier cluster claimed; every later member is of the anchor's block and
\* scores >= cutoff against the anchor, and against no earlier unclaimed
\* record of the block; and a record scoring >= cutoff against an earlier
\* unclaimed record of its block is claimed by that record's cluster or an
\* earlier one.  The roster, the scores and the cutoff thus fix the clusters.
C9_GreedyInRosterOrder ==
    pc = "returned" =>
        /\ \A a \in 1..Len(duplicate_clusters) :
             LET c == duplicate_clusters[a]
             IN  /\ c[1] \notin Claimed
                 /\ \A k \in 2..Len(c) :
                      /\ c[k - 1] < c[k]
                      /\ SameBlock(c[1], c[k])
                      /\ ScoreOf(c[1], c[k]) >= score_cutoff
                      /\ \A e \in 0..(c[1] - 1) :
                           (SameBlock(e, c[k]) /\ e \notin Claimed)
                               => ScoreOf(e, c[k]) < score_cutoff
        /\ \A x, y \in Labels :
             (x < y /\ SameBlock(x, y) /\ x \notin Claimed
                    /\ ScoreOf(x, y) >= score_cutoff)
                 => \E a \in 1..Len(duplicate_clusters) :
                       /\ duplicate_clusters[a][1] <= x
                       /\ \E k \in 2..Len(duplicate_clusters[a]) :
                            duplicate_clusters[a][k] = y
        /\ \A a, b \in 1..Len(duplicate_clusters) :
             (a < b /\ SameBlock(duplicate_clusters[a][1], duplicate_clusters[b][1]))
                 => duplicate_clusters[a][1] < duplicate_clusters[b][1]

\* a member that scores exactly the cutoff against its anchor, and a later
\* record of the block that scores >= cutoff against that member, but not
\* against the anchor, and so stays outside the cluster
C9_Witness ==
    /\ pc = "returned"
    /\ \E a \in 1..Len(duplicate_clusters) :
         LET c == duplicate_clusters[a]
         IN  /\ ScoreOf(c[1], c[2]) = score_cutoff
             /\ \E z \in Labels \ Members(c) :
                  /\ z > c[2]
                  /\ SameBlock(z, c[1])
                  /\ ScoreOf(c[2], z) >= score_cutoff
                  /\ ScoreOf(c[1], z) < score_cutoff

(***************************************************************************)
(* find_phone_number_formatting_issues applied to a roster.                *)
(***************************************************************************)
\* phone texts: "(" or nothing, 555, ")" or nothing, a first separator, 010,
\* a second separator, a last group, and what follows it
PhoneTexts ==
    { open \o << "5", "5", "5" >> \o close \o sep1 \o << "0", "1", "0" >> \o sep2
           \o group \o tail :
        open \in {<< >>, << "(" >>}, close \in {<< >>, << ")" >>},
        sep1 \in {<< >>, << "-" >>, << " " >>, << "\t" >>, << "-", "-" >>},
        sep2 \in {<< >>, << "." >>},
        group \in {<< "1", "2", "3", "4" >>, << "1", "2", "3" >>, << "1", "2", "a", "4" >>},
        tail \in {<< >>, << "\n" >>} }

PhoneCells == PhoneTexts \cup {NaN}

PhoneRoster(f) ==
    [columns |-> RosterColumns,
     rows    |-> [p \in 1..Len(f) |->
                    ProviderRow(p, AlLi[1], AlLi[2], Onc, f[p], DefaultNpi,
                                DefaultNumber, DefaultState)]]

InitPhone ==
    /\ pc = "find_phone_number_formatting_issues"
    /\ \E f \in SeqsUpTo(PhoneCells, MaxPhoneRows) : heap = << PhoneRoster(f) >>
    /\ roster = 1
    /\ ca_licenses = 0
    /\ ny_licenses = 0
    /\ similarity = << >>
    /\ score_cutoff = DefaultCutoff
    /\ phone_issues = NoTable
    /\ missing_npi = NoTable
    /\ expired_licenses = NoTable
    /\ duplicate_clusters = << >>
    /\ metrics = NoMetrics
    /\ outcome = "running"

\* phone_issues = find_phone_number_formatting_issues(roster_df)
FindPhoneIssuesCall ==
    /\ pc = "find_phone_number_formatting_issues"
    /\ \E r \in {find_phone_number_formatting_issues(heap, roster)} :
          /\ heap' = r.heap
          /\ phone_issues' = r.ret
    /\ pc' = "returned"
    /\ UNCHANGED <<roster, ca_licenses, ny_licenses, similarity, score_cutoff,
                   missing_npi, expired_licenses, duplicate_clusters, metrics,
                   outcome>>

NextPhone == FindPhoneIssuesCall

SpecPhone == InitPhone /\ [][NextPhone]_vars

\* the canonical pattern: a 3-digit area code, bare or enclosed in a pair of
\* parentheses, at most one separator ('-', '.' or a space), 3 digits, at
\* most one separator, 4 digits, and nothing else
Canonical(text) ==
    \E paren \in BOOLEAN, n1 \in 0..1, n2 \in 0..1 :
        LET Seps == {"-", ".", " "}
            area == IF paren THEN 2 ELSE 1
            after == IF paren THEN 6 ELSE 4
            mid == after + n1
            last == mid + 3 + n2
        IN  /\ Len(text) = last + 3
            /\ paren => (text[1] = "(" /\ text[5] = ")")
            /\ \A i \in area..(area + 2) : text[i] \in Digits
            /\ n1 = 1 => text[after] \in Seps
            /\ \A i \in mid..(mid + 2) : text[i] \in Digits
            /\ n2 = 1 => text[mid + 3] \in Seps
            /\ \A i \in last..(last + 3) : text[i] \in Digits

\* C6: find_phone_number_formatting_issues returns exactly the records whose
\* practice_phone is present and does not match the canonical pattern.
C6_ReportedIffNotCanonical ==
    pc = "returned" =>
        \A p \in 1..Len(heap[roster].rows) :
            LET rec == heap[roster].rows[p]
            IN  (\E k \in 1..Len(phone_issues) :
                    phone_issues[k]["provider_id"] = rec["provider_id"])
                <=> (~IsNaN(rec["practice_phone"]) /\ ~Canonical(rec["practice_phone"]))

(***************************************************************************)
(* The script: lines 160-333.                                              *)
(***************************************************************************)
\* the providers of the rosters the script loads: full name and last name,
\* specialty, phone, npi, license number and state
AppProviders ==
    { << AlLi, Onc, DefaultPhone, DefaultNpi, NumberA1, CA >>,
      << AlBLi, Onc, << "5", "5", "5", "-", "0", "1", "0", "-", "1", "2", "3" >>, NaN, NumberB2, CA >>,
      << AlLi, Onc, NaN, DefaultNpi, NumberB2, NY >>,
      << AlWu, Card, << "(", "5", "5", "5", ")", " ", "0", "1", "0", "-", "1", "2", "3", "4" >>, NaN, NumberA1, TX >> }

AppRoster(f) ==
    [columns |-> RosterColumns,
     rows    |-> [p \in 1..Len(f) |->
                    ProviderRow(p, f[p][1][1], f[p][1][2], f[p][2], f[p][3],
                                f[p][4], f[p][5], f[p][6])]]

\* ca_medical_license_database.csv: empty, one row, or two rows of one
\* license number that differ in status and date
AppCATables ==
    { << >>,
      << LicenseRow(NumberA1Padded, Active, DayBefore) >>,
      << LicenseRow(NumberA1Padded, Active, DayBefore),
         LicenseRow(NumberA1, ExpiredUpper, NoDate) >> }

\* ny_medical_license_database.csv
AppNYTables == { << >>, << LicenseRow(NumberB2, ExpiredLower, DayAfter) >> }

AppNamePairs == { {Normalize(AlLi[1]), Normalize(AlBLi[1])} }

Pages ==
    {"Dashboard Overview", "Duplicate Providers", "License Validation",
     "Data Formatting Issues"}

InitApp ==
    /\ pc = "load_data"
    /\ heap = << >>
    /\ roster = 0
    /\ ca_licenses = 0
    /\ ny_licenses = 0
    /\ similarity \in [AppNamePairs -> ScoresAround(DefaultCutoff)]
    /\ score_cutoff = DefaultCutoff
    /\ phone_issues = NoTable
    /\ missing_npi = NoTable
    /\ expired_licenses = NoTable
    /\ duplicate_clusters = << >>
    /\ metrics = NoMetrics
    /\ outcome = "running"

\* line 163: roster, ca_licenses, ny_licenses, npi_registry = load_data().
\* Either the files are read, or one is missing: load_data shows the error
\* and returns None for every table.
LoadData ==
    /\ pc = "load_data"
    /\ \/ \E f \in SeqsUpTo(AppProviders, MaxProviders),
             ca \in AppCATables, ny \in AppNYTables :
            /\ heap' = << AppRoster(f), LicenseTable(ca), LicenseTable(ny) >>
            /\ roster' = 1
            /\ ca_licenses' = 2
            /\ ny_licenses' = 3
       \/ /\ heap' = << >>
          /\ roster' = 0
          /\ ca_licenses' = 0
          /\ ny_licenses' = 0
    /\ pc' = "line165"
    /\ UNCHANGED <<similarity, score_cutoff, phone_issues, missing_npi,
                   expired_licenses, duplicate_clusters, metrics, outcome>>

\* line 165: missing_npi = roster[roster['npi'].isna()], before any check of
\* roster: subscripting None raises TypeError, which ends the script
Line165 ==
    /\ pc = "line165"
    /\ IF roster = 0
       THEN /\ pc' = "crashed"
            /\ outcome' = "TypeError"
            /\ UNCHANGED missing_npi
       ELSE /\ pc' = "line185"
            /\ missing_npi' = SelectSeq(heap[roster].rows, LAMBDA row : IsNaN(row["npi"]))
            /\ UNCHANGED outcome
    /\ UNCHANGED <<heap, roster, ca_licenses, ny_licenses, similarity,
                   score_cutoff, phone_issues, expired_licenses,
                   duplicate_clusters, metrics>>

\* lines 185 and 332-333: if roster is not None: ... else: st.warning(...)
Line185 ==
    /\ pc = "line185"
    /\ IF roster # 0
       THEN /\ pc' = "line187"
            /\ UNCHANGED outcome
       ELSE /\ pc' = "done"
            /\ outcome' = "Data could not be loaded"
    /\ UNCHANGED <<heap, roster, ca_licenses, ny_licenses, similarity,
                   score_cutoff, phone_issues, missing_npi, expired_licenses,
                   duplicate_clusters, metrics>>

\* line 187: phone_issues = find_phone_number_formatting_issues(roster.copy())
Line187 ==
    /\ pc = "line187"
    /\ \E c \in {CopyDF(heap, roster)} :
         \E r \in {find_phone_number_formatting_issues(c.heap, c.ref)} :
            /\ heap' = r.heap
            /\ phone_issues' = r.ret
    /\ pc' = "line188"
    /\ UNCHANGED <<roster, ca_licenses, ny_licenses, similarity, score_cutoff,
                   missing_npi, expired_licenses, duplicate_clusters, metrics,
                   outcome>>

\* line 188: missing_npi = find_missing_npi(roster.copy())
Line188 ==
    /\ pc = "line188"
    /\ \E c \in {CopyDF(heap, roster)} :
         \E r \in {find_missing_npi(c.heap, c.ref)} :
            /\ heap' = r.heap
            /\ missing_npi' = r.ret
    /\ pc' = "line189"
    /\ UNCHANGED <<roster, ca_licenses, ny_licenses, similarity, score_cutoff,
                   phone_issues, expired_licenses, duplicate_clusters, metrics,
                   outcome>>

\* line 189: expired_licenses = validate_licenses(roster.copy(),
\*                                  ca_licenses.copy(), ny_licenses.copy())
Line189 ==
    /\ pc = "line189"
    /\ \E c1 \in {CopyDF(heap, roster)} :
         \E c2 \in {CopyDF(c1.heap, ca_licenses)} :
           \E c3 \in {CopyDF(c2.heap, ny_licenses)} :
             \E r \in {validate_licenses(c3.heap, c1.ref, c2.ref, c3.ref)} :
                /\ heap' = r.heap
                /\ expired_licenses' = r.ret
    /\ pc' = "line190"
    /\ UNCHANGED <<roster, ca_licenses, ny_licenses, similarity, score_cutoff,
                   phone_issues, missing_npi, duplicate_clusters, metrics,
                   outcome>>

\* line 190: duplicate_clusters = find_duplicates(roster.copy())
Line190 ==
    /\ pc = "line190"
    /\ \E c \in {CopyDF(heap, roster)} :
         \E r \in {find_duplicates(c.heap, c.ref, DefaultCutoff)} :
            /\ heap' = r.heap
            /\ duplicate_clusters' = r.ret
    /\ pc' = "line194"
    /\ UNCHANGED <<roster, ca_licenses, ny_licenses, similarity, score_cutoff,
                   phone_issues, missing_npi, expired_licenses, metrics,
                   outcome>>

\* lines 194-331: the page chosen in the sidebar is rendered; the overview
\* page computes the metrics
RenderPage ==
    /\ pc = "line194"
    /\ \E page \in Pages :
          /\ outcome' = page
          /\ metrics' =
                IF page = "Dashboard Overview"
                THEN OverviewMetrics(Len(heap[roster].rows), Len(phone_issues),
                                     Len(missing_npi), Len(expired_licenses),
                                     NumDuplicates(duplicate_clusters))
                ELSE metrics
    /\ pc' = "done"
    /\ UNCHANGED <<heap, roster, ca_licenses, ny_licenses, similarity,
                   score_cutoff, phone_issues, missing_npi, expired_licenses,
                   duplicate_clusters>>

NextApp ==
    \/ LoadData
    \/ Line165
    \/ Line185
    \/ Line187
    \/ Line188
    \/ Line189
    \/ Line190
    \/ RenderPage

SpecApp == InitApp /\ [][NextApp]_vars

(***************************************************************************)
(* Properties of the script.                                               *)
(***************************************************************************)
Ended == pc \in {"done", "crashed"}

AnalysisRan ==
    \/ phone_issues # NoTable
    \/ expired_licenses # NoTable
    \/ duplicate_clusters # << >>
    \/ Len(heap) > 0

\* C5: when load_data returns None for the roster, the script runs no
\* analysis, computes no report, and ends with the 'Data could not be
\* loaded' warning, not with another error.
C5_NoRosterEndsInWarning ==
    (Ended /\ roster = 0) =>
        /\ outcome = "Data could not be loaded"
        /\ pc = "done"
        /\ ~AnalysisRan
        /\ ~metrics.computed

\* the sizes of the clusters, added one cluster at a time
RECURSIVE ClusterMembers(_, _)
ClusterMembers(clusters, a) ==
    IF a > Len(clusters) THEN 0
    ELSE Cardinality(Members(clusters[a])) + ClusterMembers(clusters, a + 1)

\* C7: total issues = phone issues + missing identifiers + invalid-license
\* rows + the sizes of all clusters; checked fields = 4 * providers; the
\* score is (checked - total) / checked * 100, and 0 for zero providers.
C7_MetricsArithmetic ==
    (pc = "done" /\ metrics.computed) =>
        /\ metrics.total_issues =
              Len(phone_issues) + Len(missing_npi) + Len(expired_licenses)
                  + ClusterMembers(duplicate_clusters, 1)
        /\ metrics.fields_checked = 4 * Len(heap[roster].rows)
        /\ metrics.quality_score.den > 0
        /\ IF Len(heap[roster].rows) = 0
           THEN metrics.quality_score.num = 0
           ELSE metrics.quality_score.num * metrics.fields_checked =
                    (metrics.fields_checked - metrics.total_issues) * 100
                        * metrics.quality_score.den

\* the overview of a roster with a cluster of three records, which counts 3,
\* beside a phone issue, a missing identifier and an invalid license
C7_Witness ==
    /\ pc = "done"
    /\ metrics.computed
    /\ \E a \in 1..Len(duplicate_clusters) : Len(duplicate_clusters[a]) = 3
    /\ metrics.num_duplicates = 3
    /\ metrics.num_phone_issues = 1
    /\ metrics.num_missing_npi = 1
    /\ metrics.num_expired_licenses = 1
    /\ metrics.total_issues = 6
    /\ metrics.quality_score = [num |-> 600, den |-> 12]

\* the lines of the script that follow line n
After(n) ==
    {"line188", "line189", "line190", "line194", "done"}
        \ {"line" \o ToString(m) : m \in 188..n}

\* each analysis applied to the tables as loaded, with no other step before it
PhoneOnLoaded ==
    find_phone_number_formatting_issues(<< heap[roster] >>, 1).ret

NpiOnLoaded == find_missing_npi(<< heap[roster] >>, 1).ret

LicensesOnLoaded ==
    validate_licenses(<< heap[roster], heap[ca_licenses], heap[ny_licenses] >>,
                      1, 2, 3).ret

DuplicatesOnLoaded == find_duplicates(<< heap[roster] >>, 1, DefaultCutoff).ret

\* C8: no step of the script changes the loaded roster or the loaded
\* license tables, and they keep exactly the columns they were loaded with:
\* every analysis assigns its columns to a copy. The result of each analysis
\* is the one it gives on the loaded tables alone, whatever ran before it.
C8_LoadedTablesUntouched ==
    [][(pc # "load_data" /\ roster # 0) =>
          /\ heap'[roster] = heap[roster]
          /\ heap'[ca_licenses] = heap[ca_licenses]
          /\ heap'[ny_licenses] = heap[ny_licenses]
          /\ heap'[roster].columns = RosterColumns
          /\ heap'[ca_licenses].columns = LicenseColumns
          /\ heap'[ny_licenses].columns = LicenseColumns
          /\ pc' \in After(187) => phone_issues' = PhoneOnLoaded
          /\ pc' \in After(188) => missing_npi' = NpiOnLoaded
          /\ pc' \in After(189) => expired_licenses' = LicensesOnLoaded
          /\ pc' \in After(190) => duplicate_clusters' = DuplicatesOnLoaded]_vars

\* all four analyses ran; copies carry the columns the analyses assigned,
\* the loaded tables do not
C8_Witness ==
    /\ pc = "done"
    /\ roster # 0
    /\ Len(heap[roster].rows) > 0
    /\ heap[roster].columns = RosterColumns
    /\ heap[ca_licenses].columns = LicenseColumns
    /\ \E i \in DOMAIN heap : "practice_phone_str" \in heap[i].columns
    /\ \E i \in DOMAIN heap :
          heap[i].columns = RosterColumns \cup {"license_number_clean"}
    /\ \E i \in DOMAIN heap :
          heap[i].columns = LicenseColumns \cup {"license_number_clean"}
    /\ \E i \in DOMAIN heap :
          heap[i].columns = RosterColumns \cup {"last_name_norm", "full_name_norm"}

\* C10: each of the four counts is at most the number of providers, so the
\* total never exceeds the checked fields and the score lies in 0..100; a
\* roster record has at most one row in the invalid-license output.
C10_CountsWithinProviders ==
    (pc = "done" /\ metrics.computed) =>
        /\ metrics.num_phone_issues <= metrics.total_providers
        /\ metrics.num_missing_npi <= metrics.total_providers
        /\ metrics.num_expired_licenses <= metrics.total_providers
        /\ metrics.num_duplicates <= metrics.total_providers
        /\ metrics.total_issues <= metrics.fields_checked
        /\ metrics.quality_score.num >= 0
        /\ metrics.quality_score.num <= 100 * metrics.quality_score.den
        /\ \A p \in 1..Len(heap[roster].rows) :
              Cardinality({k \in 1..Len(expired_licenses) :
                  expired_licenses[k]["provider_id"] = heap[roster].rows[p]["provider_id"]}) <= 1

====
